---- MODULE Spec2Model ----
(***************************************************************************)
(* HTTP/1 connection pool: ActiveClient (one upstream connection) and its  *)
(* StreamWrapper (the single request/response exchange in flight on it),   *)
(* source/common/http/http1/conn_pool.cc.                                  *)
(*                                                                         *)
(* One ActiveClient slot of the pool is modelled.  Every handler is one    *)
(* action; the synchronous calls it makes (codec close, pool callbacks,    *)
(* destructors) are composed as operators over a record of the whole       *)
(* state, and the action commits the record the handler returns with.      *)
(***************************************************************************)
EXTENDS Naturals, Sequences, FiniteSets

VARIABLES
    fixed_connection_close, \* runtime feature envoy.reloadable_features.fixed_connection_close
    stream_wrapper_,        \* ActiveClient::stream_wrapper_: <<>> (nullptr) or <<StreamWrapper>>
    client_state,           \* the pool's view of the ActiveClient: none / READY / BUSY / CLOSED
    conn_open,              \* the codec client's connection is open
    remote_closed,          \* codec_client_->remoteClosed()
    pool,                   \* the pool: active / draining / drained / destroyed / crashed
    pending,                \* requests queued in the pool
    posted,                 \* dispatcher: callbacks posted and not yet run
    notified,               \* delay flags of the onStreamClosed calls the pool received
    created,                \* StreamWrapper objects constructed
    destroyed,              \* StreamWrapper objects destructed
    response_decoder,       \* what the caller's ResponseDecoder last received
    asserts,                \* ASSERTs whose condition was false when evaluated
    exchange,               \* history: none / in_flight / clean / closing / violation / reset
    calls,                  \* history: outward calls of the last handler, in order
    last                    \* history: the last handler and the state it started in

vars == <<fixed_connection_close, stream_wrapper_, client_state, conn_open, remote_closed,
          pool, pending, posted, notified, created, destroyed,
          response_decoder, asserts, exchange, calls, last>>

----
\* Bounds of the model.
MaxStreams == 2
MaxPending == 1

----
\* Header values are character strings; absent headers read as the empty string.
UpperCase == <<"A","B","C","D","E","F","G","H","I","J","K","L","M",
               "N","O","P","Q","R","S","T","U","V","W","X","Y","Z">>
LowerCase == <<"a","b","c","d","e","f","g","h","i","j","k","l","m",
               "n","o","p","q","r","s","t","u","v","w","x","y","z">>

Chars == {UpperCase[i] : i \in 1..Len(UpperCase)} \cup {LowerCase[i] : i \in 1..Len(LowerCase)}
             \cup {"-"}

\* absl::ascii_tolower, as a table over the characters in use.
ascii_tolower ==
    [c \in Chars |->
        IF \E i \in 1..Len(UpperCase) : UpperCase[i] = c
        THEN LowerCase[CHOOSE i \in 1..Len(UpperCase) : UpperCase[i] = c]
        ELSE c]

\* Mutant: the comparison is exact.
EqualsIgnoreCase_exact(piece1, piece2) == piece1 = piece2

EqualsIgnoreCase(piece1, piece2) ==
    /\ Len(piece1) = Len(piece2)
    /\ \A i \in 1..Len(piece1) : ascii_tolower[piece1[i]] = ascii_tolower[piece2[i]]

Close == <<"c","l","o","s","e">>
KeepAlive == <<"k","e","e","p","-","a","l","i","v","e">>

Http10 == "Http10"
Http11 == "Http11"
Protocols == {Http10, Http11}

\* Inputs: the Connection and Proxy-Connection values a response may carry.
ConnectionInputs ==
    { <<>>, Close, <<"C","l","O","s","e">>, <<"K","e","e","p","-","A","l","i","v","e">> }
ProxyConnectionInputs == { <<>>, <<"C","L","O","S","E">> }

NoHeaders == [connection |-> <<>>, proxy_connection |-> <<>>]
NoDecoded == [headers |-> NoHeaders, end_stream |-> FALSE]

----
\* The whole state as one record, and its commit to the variables.
Cur ==
    [fixed_connection_close |-> fixed_connection_close,
     stream_wrapper_ |-> stream_wrapper_, client_state |-> client_state,
     conn_open |-> conn_open, remote_closed |-> remote_closed,
     pool |-> pool, pending |-> pending, posted |-> posted, notified |-> notified,
     created |-> created, destroyed |-> destroyed,
     response_decoder |-> response_decoder,
     asserts |-> asserts, exchange |-> exchange, calls |-> calls, last |-> last]

Commit(s) ==
    /\ fixed_connection_close' = s.fixed_connection_close
    /\ stream_wrapper_' = s.stream_wrapper_
    /\ client_state' = s.client_state
    /\ conn_open' = s.conn_open
    /\ remote_closed' = s.remote_closed
    /\ pool' = s.pool
    /\ pending' = s.pending
    /\ posted' = s.posted
    /\ notified' = s.notified
    /\ created' = s.created
    /\ destroyed' = s.destroyed
    /\ response_decoder' = s.response_decoder
    /\ asserts' = s.asserts
    /\ exchange' = s.exchange
    /\ calls' = s.calls
    /\ last' = s.last

Live(s) == s.stream_wrapper_ # <<>>

\* A handler starts: the call trace is emptied and the state it starts in is recorded.
Enter(s, op, proto, hdrs, es) ==
    [s EXCEPT !.calls = <<>>,
              !.last = [op |-> op,
                        encode_complete_ |-> Live(s) /\ s.stream_wrapper_[1].encode_complete_,
                        decode_complete_ |-> Live(s) /\ s.stream_wrapper_[1].decode_complete_,
                        close_connection_ |-> Live(s) /\ s.stream_wrapper_[1].close_connection_,
                        remote_closed |-> s.remote_closed,
                        conn_open |-> s.conn_open,
                        protocol |-> proto,
                        headers |-> hdrs,
                        end_stream |-> es]]

Call(s, name) == [s EXCEPT !.calls = Append(@, name)]

Count(seq, name) == Cardinality({i \in 1..Len(seq) : seq[i] = name})

----
\* Collaborators outside conn_pool.cc: the codec client, the dispatcher, the pool.

RECURSIVE StreamWrapper_dtor(_), Pool_onStreamClosed(_, _), Pool_onUpstreamReady(_),
          ActiveClient_newStreamEncoder(_)

\* CodecClient::close(): closes the connection; the pool sees the close event at once
\* and takes the client out of service.  Closing a closed connection does nothing.
CodecClient_close(s) ==
    LET c == Call(s, "close")
    IN  IF c.conn_open
        THEN [c EXCEPT !.conn_open = FALSE, !.client_state = "CLOSED"]
        ELSE c

\* Dispatcher::post(): the callback is queued for a later loop iteration.
Dispatcher_post(s, cb) == [Call(s, "post") EXCEPT !.posted = Append(@, cb)]

\* Pool::checkForDrained(): re-evaluates whether the pool can be torn down: a drain
\* was requested, nothing is queued and no connection is in use.
Pool_checkForDrained(s) ==
    LET c == Call(s, "checkForDrained")
    IN  IF c.pool = "draining" /\ c.pending = 0 /\ c.client_state \in {"none", "READY"}
        THEN [c EXCEPT !.pool = "drained"]
        ELSE c

\* Pool::onStreamClosed(client, delay): the client's exchange slot is free; a busy
\* client becomes ready, and pending requests are attached at once unless delayed.
Pool_onStreamClosed(s, delay) ==
    LET c == Call([s EXCEPT !.notified = Append(@, delay)], "onStreamClosed")
        r == [c EXCEPT !.client_state = IF @ = "BUSY" THEN "READY" ELSE @]
    IN  IF delay THEN r ELSE Pool_onUpstreamReady(r)

\* Pool::onUpstreamReady(): a pending request is attached to the ready client.
Pool_onUpstreamReady(s) ==
    LET c == Call(s, "onUpstreamReady")
    IN  IF c.pending > 0 /\ c.client_state = "READY"
        THEN ActiveClient_newStreamEncoder(
                 [c EXCEPT !.pending = @ - 1, !.client_state = "BUSY"])
        ELSE c

----
\* conn_pool.cc

\* Mutant: a new wrapper starts from the flags the previous exchange ended with.
StreamWrapper_ctor_stale ==
    [encode_complete_ |-> last.encode_complete_,
     decode_complete_ |-> last.decode_complete_,
     close_connection_ |-> last.close_connection_]

\* StreamWrapper::StreamWrapper: the flags start false.
StreamWrapper_ctor ==
    [encode_complete_ |-> FALSE, decode_complete_ |-> FALSE, close_connection_ |-> FALSE]

\* Mutant: the destructor asks the pool to attach pending requests at once.
StreamWrapper_dtor_nodelay(s) ==
    Pool_onStreamClosed([s EXCEPT !.destroyed = @ + 1, !.response_decoder = NoDecoded], FALSE)

\* StreamWrapper::~StreamWrapper
StreamWrapper_dtor(s) ==
    Pool_onStreamClosed([s EXCEPT !.destroyed = @ + 1, !.response_decoder = NoDecoded], TRUE)

\* ASSERT(cond): a false condition is recorded; a release build carries on.
ASSERT(s, cond, where) == IF cond THEN s ELSE [s EXCEPT !.asserts = @ \cup {where}]

\* ActiveClient::newStreamEncoder; assigning over a live wrapper destroys the old one.
ActiveClient_newStreamEncoder(s) ==
    LET a == ASSERT(s, ~Live(s), "newStreamEncoder")
        n == [a EXCEPT !.stream_wrapper_ = <<StreamWrapper_ctor>>,
                       !.created = @ + 1,
                       !.response_decoder = NoDecoded,
                       !.exchange = "in_flight"]
    IN  IF Live(s) THEN StreamWrapper_dtor(n) ELSE n

\* Mutant: any held wrapper counts as incomplete.
closingWithIncompleteStream_anyStream(s) == s.stream_wrapper_ # <<>>

\* ActiveClient::closingWithIncompleteStream
closingWithIncompleteStream(s) ==
    (s.stream_wrapper_ # <<>>) /\ (~s.stream_wrapper_[1].decode_complete_)

\* Mutant: the wrapper's destructor runs but the pointer is left in place.
stream_wrapper_reset_leak(s) ==
    IF Live(s) THEN StreamWrapper_dtor(s) ELSE s

\* std::unique_ptr::reset() on stream_wrapper_: the pointer is cleared, then the
\* wrapper it held is destroyed.
stream_wrapper_reset(s) ==
    IF Live(s)
    THEN StreamWrapper_dtor([s EXCEPT !.stream_wrapper_ = <<>>])
    ELSE s

\* Mutant: the end of the request also marks the response complete.
StreamWrapper_onEncodeComplete_both(s) ==
    [s EXCEPT !.stream_wrapper_[1].encode_complete_ = TRUE,
              !.stream_wrapper_[1].decode_complete_ = TRUE]

\* StreamWrapper::onEncodeComplete
StreamWrapper_onEncodeComplete(s) ==
    [s EXCEPT !.stream_wrapper_[1].encode_complete_ = TRUE]

\* HeaderUtility::shouldCloseConnection(protocol, headers)
shouldCloseConnection(proto, headers) ==
    \/ EqualsIgnoreCase(headers.connection, Close)
    \/ (proto = Http10 /\ ~EqualsIgnoreCase(headers.connection, KeepAlive))

\* Mutant: the HTTP/1.0 default is left out.
legacyShouldClose_noHttp10(proto, headers) ==
    \/ EqualsIgnoreCase(headers.connection, Close)
    \/ EqualsIgnoreCase(headers.proxy_connection, Close)

\* The legacy condition of StreamWrapper::decodeHeaders.
legacyShouldClose(proto, headers) ==
    \/ EqualsIgnoreCase(headers.connection, Close)
    \/ (proto = Http10 /\ ~EqualsIgnoreCase(headers.connection, KeepAlive))
    \/ EqualsIgnoreCase(headers.proxy_connection, Close)

\* ResponseDecoderWrapper::decodeHeaders: the headers go on to the caller's decoder.
ResponseDecoderWrapper_decodeHeaders(s, headers, end_stream) ==
    [Call(s, "decodeHeaders") EXCEPT
        !.response_decoder = [headers |-> headers, end_stream |-> end_stream]]

\* stats().upstream_cx_close_notify_.inc(): a call to the stats collaborator.
upstream_cx_close_notify_inc(s) == Call(s, "upstream_cx_close_notify_.inc")


\* Mutant: the legacy conditions assign the flag instead of only setting it.
StreamWrapper_decodeHeaders_legacyAssign(s, proto, headers, end_stream) ==
    LET c == [s EXCEPT !.stream_wrapper_[1].close_connection_ =
                  IF s.fixed_connection_close
                  THEN shouldCloseConnection(proto, headers)
                  ELSE legacyShouldClose(proto, headers)]
        d == IF c.stream_wrapper_[1].close_connection_
             THEN upstream_cx_close_notify_inc(c)
             ELSE c
    IN  ResponseDecoderWrapper_decodeHeaders(d, headers, end_stream)

\* Mutant: the headers are forwarded before the close decision is taken and counted.
StreamWrapper_decodeHeaders_forwardFirst(s, proto, headers, end_stream) ==
    LET f == ResponseDecoderWrapper_decodeHeaders(s, headers, end_stream)
    IN  IF f.fixed_connection_close
        THEN LET c == [f EXCEPT !.stream_wrapper_[1].close_connection_ =
                           shouldCloseConnection(proto, headers)]
             IN  IF c.stream_wrapper_[1].close_connection_
                 THEN upstream_cx_close_notify_inc(c)
                 ELSE c
        ELSE IF legacyShouldClose(proto, headers)
             THEN [upstream_cx_close_notify_inc(f) EXCEPT
                       !.stream_wrapper_[1].close_connection_ = TRUE]
             ELSE f

\* StreamWrapper::decodeHeaders; proto is what codec_client_->protocol() returns.
StreamWrapper_decodeHeaders(s, proto, headers, end_stream) ==
    LET d == IF s.fixed_connection_close
             THEN LET c == [s EXCEPT !.stream_wrapper_[1].close_connection_ =
                                shouldCloseConnection(proto, headers)]
                  IN  IF c.stream_wrapper_[1].close_connection_
                      THEN upstream_cx_close_notify_inc(c)
                      ELSE c
             ELSE IF legacyShouldClose(proto, headers)
                  THEN [upstream_cx_close_notify_inc(s) EXCEPT
                            !.stream_wrapper_[1].close_connection_ = TRUE]
                  ELSE s
    IN  ResponseDecoderWrapper_decodeHeaders(d, headers, end_stream)

\* Mutant: the pool is told the connection is ready from inside the completion call.
onDecodeComplete_reuse_sync(s) ==
    Pool_checkForDrained(
        stream_wrapper_reset(
            Pool_onUpstreamReady([s EXCEPT !.exchange = "clean"])))

\* Mutant: checkForDrained is called before the wrapper is released.
onDecodeComplete_reuse_drainFirst(s) ==
    stream_wrapper_reset(
        Pool_checkForDrained(
            Dispatcher_post([s EXCEPT !.exchange = "clean"], "onUpstreamReady")))

\* The last branch of StreamWrapper::onDecodeComplete: the connection is reusable.
onDecodeComplete_reuse(s) ==
    Pool_checkForDrained(
        stream_wrapper_reset(
            Dispatcher_post([s EXCEPT !.exchange = "clean"], "onUpstreamReady")))

\* Mutant: a response that ends before the request is not treated as a violation.
StreamWrapper_onDecodeComplete_noViolation(s) ==
    LET a == ASSERT(s, ~s.stream_wrapper_[1].decode_complete_, "onDecodeComplete")
        d == [a EXCEPT !.stream_wrapper_[1].decode_complete_ =
                            a.stream_wrapper_[1].encode_complete_]
    IN  IF d.stream_wrapper_[1].close_connection_ \/ d.remote_closed
        THEN CodecClient_close([d EXCEPT !.exchange = "closing"])
        ELSE onDecodeComplete_reuse(d)

\* Mutant: decode_complete_ is set to true whatever encode_complete_ is.
StreamWrapper_onDecodeComplete_decodeTrue(s) ==
    LET a == ASSERT(s, ~s.stream_wrapper_[1].decode_complete_, "onDecodeComplete")
        d == [a EXCEPT !.stream_wrapper_[1].decode_complete_ = TRUE]
    IN  IF ~d.stream_wrapper_[1].encode_complete_
        THEN CodecClient_close([d EXCEPT !.exchange = "violation"])
        ELSE IF d.stream_wrapper_[1].close_connection_ \/ d.remote_closed
             THEN CodecClient_close([d EXCEPT !.exchange = "closing"])
             ELSE onDecodeComplete_reuse(d)

\* Mutant: the connection's remote-closed status is not consulted.
StreamWrapper_onDecodeComplete_ignoreRemote(s) ==
    LET a == ASSERT(s, ~s.stream_wrapper_[1].decode_complete_, "onDecodeComplete")
        d == [a EXCEPT !.stream_wrapper_[1].decode_complete_ =
                            a.stream_wrapper_[1].encode_complete_]
    IN  IF ~d.stream_wrapper_[1].encode_complete_
        THEN CodecClient_close([d EXCEPT !.exchange = "violation"])
        ELSE IF d.stream_wrapper_[1].close_connection_
             THEN CodecClient_close([d EXCEPT !.exchange = "closing"])
             ELSE onDecodeComplete_reuse(d)

\* Mutant: a completion that closes the connection still posts the ready callback.
StreamWrapper_onDecodeComplete_closeAndPost(s) ==
    LET a == ASSERT(s, ~s.stream_wrapper_[1].decode_complete_, "onDecodeComplete")
        d == [a EXCEPT !.stream_wrapper_[1].decode_complete_ =
                            a.stream_wrapper_[1].encode_complete_]
    IN  IF ~d.stream_wrapper_[1].encode_complete_
        THEN CodecClient_close([d EXCEPT !.exchange = "violation"])
        ELSE IF d.stream_wrapper_[1].close_connection_ \/ d.remote_closed
             THEN Dispatcher_post(CodecClient_close([d EXCEPT !.exchange = "closing"]),
                                  "onUpstreamReady")
             ELSE onDecodeComplete_reuse(d)

\* StreamWrapper::onDecodeComplete
StreamWrapper_onDecodeComplete(s) ==
    LET a == ASSERT(s, ~s.stream_wrapper_[1].decode_complete_, "onDecodeComplete")
        d == [a EXCEPT !.stream_wrapper_[1].decode_complete_ =
                            a.stream_wrapper_[1].encode_complete_]
    IN  IF ~d.stream_wrapper_[1].encode_complete_
        THEN CodecClient_close([d EXCEPT !.exchange = "violation"])
        ELSE IF d.stream_wrapper_[1].close_connection_ \/ d.remote_closed
             THEN CodecClient_close([d EXCEPT !.exchange = "closing"])
             ELSE onDecodeComplete_reuse(d)

\* Mutant: a reset leaves the connection open.
StreamWrapper_onResetStream_noClose(s) == [s EXCEPT !.exchange = "reset"]

\* Mutant: a reset closes the connection and releases the wrapper at once.
StreamWrapper_onResetStream_release(s) ==
    stream_wrapper_reset(CodecClient_close([s EXCEPT !.exchange = "reset"]))

\* StreamWrapper::onResetStream
StreamWrapper_onResetStream(s) ==
    CodecClient_close([s EXCEPT !.exchange = "reset"])

\* ActiveClient::ActiveClient
ActiveClient_ctor(s) ==
    [Call(s, "upstream_cx_http1_total_.inc") EXCEPT
        !.client_state = "READY",
        !.conn_open = TRUE,
        !.remote_closed = FALSE]

\* ActiveClient::~ActiveClient: the members go, stream_wrapper_ among them.
ActiveClient_dtor(s) ==
    LET g == [s EXCEPT !.client_state = "none", !.stream_wrapper_ = <<>>,
                       !.remote_closed = FALSE]
    IN  IF Live(s) THEN StreamWrapper_dtor(g) ELSE g

----
\* Actions

NoInput(s, op) == Enter(s, op, Http11, NoHeaders, FALSE)

\* The pool opens an upstream connection for a queued request; once connected the
\* client is ready and the pool attaches the request.
newActiveClient ==
    /\ pool \in {"active", "draining"}
    /\ client_state = "none"
    /\ pending > 0
    /\ Commit(Pool_onUpstreamReady(ActiveClient_ctor(NoInput(Cur, "newActiveClient"))))

\* A request arrives at the pool and the ready client takes it.
newStream ==
    /\ pool = "active"
    /\ client_state = "READY"
    /\ created + pending < MaxStreams
    /\ Commit(ActiveClient_newStreamEncoder(
                  [NoInput(Cur, "newStream") EXCEPT !.client_state = "BUSY"]))

\* A request arrives at the pool and no client is ready: it is queued.
newPendingStream ==
    /\ pool = "active"
    /\ client_state # "READY"
    /\ pending < MaxPending
    /\ created + pending < MaxStreams
    /\ Commit([NoInput(Cur, "newPendingStream") EXCEPT !.pending = @ + 1])

onEncodeComplete ==
    /\ stream_wrapper_ # <<>>
    /\ Commit(StreamWrapper_onEncodeComplete(NoInput(Cur, "onEncodeComplete")))

\* The codec has parsed a response's status line and headers, drawn from the sets given.
decodeHeadersFrom(protocols, connections, proxy_connections, end_streams) ==
    /\ stream_wrapper_ # <<>>
    /\ \E p \in protocols, c \in connections, pc \in proxy_connections,
          end_stream \in end_streams :
         LET headers == [connection |-> c, proxy_connection |-> pc]
             s == Enter(Cur, "decodeHeaders", p, headers, end_stream)
         IN  Commit(StreamWrapper_decodeHeaders(s, p, headers, end_stream))

decodeHeaders ==
    decodeHeadersFrom(Protocols, ConnectionInputs, ProxyConnectionInputs, BOOLEAN)

\* The same, for HTTP/1.1 responses with or without "Connection: close".
decodeHeadersHttp11 ==
    decodeHeadersFrom({Http11}, {<<>>, Close}, {<<>>}, {FALSE})

onDecodeComplete ==
    /\ stream_wrapper_ # <<>>
    /\ Commit(StreamWrapper_onDecodeComplete(NoInput(Cur, "onDecodeComplete")))

onResetStream ==
    /\ stream_wrapper_ # <<>>
    /\ Commit(StreamWrapper_onResetStream(NoInput(Cur, "onResetStream")))

\* The peer closes the connection.  With no exchange live the pool takes the client
\* out of service; with one live, the codec goes on to finish or reset it.
remoteClose ==
    /\ client_state \in {"READY", "BUSY"}
    /\ conn_open
    /\ ~remote_closed
    /\ LET s == [NoInput(Cur, "remoteClose") EXCEPT !.remote_closed = TRUE]
       IN  Commit(IF Live(s)
                  THEN s
                  ELSE [s EXCEPT !.conn_open = FALSE, !.client_state = "CLOSED"])

\* The callback posted by onDecodeComplete: [pool]() { pool->onUpstreamReady(); }.
\* The pool pointer is the one captured at the post.  Through a pointer to a pool
\* that has been destroyed the call is undefined: it may go unnoticed or crash.
postedCallback(s) ==
    IF s.pool = "destroyed"
    THEN { [Call(s, "onUpstreamReady on a destroyed pool") EXCEPT !.pool = outcome] :
               outcome \in {"destroyed", "crashed"} }
    ELSE { Pool_onUpstreamReady(s) }

\* The dispatcher runs the callback posted first.
runPosted ==
    /\ posted # <<>>
    /\ pool # "crashed"
    /\ \E r \in postedCallback([NoInput(Cur, "runPosted") EXCEPT !.posted = Tail(@)]) :
          Commit(r)

\* The owner of the pool asks it to drain.
drainRequested ==
    /\ pool = "active"
    /\ Commit(Pool_checkForDrained(
                  [NoInput(Cur, "drainRequested") EXCEPT !.pool = "draining"]))

\* The owner, told the pool has drained, tears it down with its idle connection.
poolTeardown ==
    /\ pool = "drained"
    /\ Commit(ActiveClient_dtor(
                  [NoInput(Cur, "poolTeardown") EXCEPT !.pool = "destroyed",
                                                       !.conn_open = FALSE]))

\* The dispatcher deletes the closed client.
deferredDelete ==
    /\ client_state = "CLOSED"
    /\ Commit(ActiveClient_dtor(NoInput(Cur, "deferredDelete")))

Init ==
    /\ fixed_connection_close \in BOOLEAN
    /\ stream_wrapper_ = <<>>
    /\ client_state = "none"
    /\ conn_open = FALSE
    /\ remote_closed = FALSE
    /\ pool = "active"
    /\ pending = 0
    /\ posted = <<>>
    /\ notified = <<>>
    /\ created = 0
    /\ destroyed = 0
    /\ response_decoder = NoDecoded
    /\ asserts = {}
    /\ exchange = "none"
    /\ calls = <<>>
    /\ last = [op |-> "init", encode_complete_ |-> FALSE,
               decode_complete_ |-> FALSE, close_connection_ |-> FALSE,
               remote_closed |-> FALSE, conn_open |-> FALSE,
               protocol |-> Http11, headers |-> NoHeaders, end_stream |-> FALSE]

Next ==
    \/ newActiveClient
    \/ newStream
    \/ newPendingStream
    \/ onEncodeComplete
    \/ decodeHeaders
    \/ onDecodeComplete
    \/ onResetStream
    \/ remoteClose
    \/ runPosted
    \/ deferredDelete
    \/ drainRequested
    \/ poolTeardown

Spec == Init /\ [][Next]_vars

\* The program with HTTP/1.1 responses only.
NextHttp11 ==
    \/ newActiveClient
    \/ newStream
    \/ newPendingStream
    \/ onEncodeComplete
    \/ decodeHeadersHttp11
    \/ onDecodeComplete
    \/ onResetStream
    \/ remoteClose
    \/ runPosted
    \/ deferredDelete
    \/ drainRequested
    \/ poolTeardown

\* The dispatcher loop keeps running: a posted callback is run in a later iteration.
FairSpec == Init /\ [][NextHttp11]_vars /\ WF_vars(runPosted)

----
\* Properties

Called(name) == Count(calls, name) > 0

\* The spellings among the inputs that read "close" / "keep-alive" without regard to case.
CloseSpellings == { <<"c","l","o","s","e">>, <<"C","l","O","s","e">>, <<"C","L","O","S","E">> }
KeepAliveSpellings == { <<"k","e","e","p","-","a","l","i","v","e">>,
                        <<"K","e","e","p","-","A","l","i","v","e">> }

\* C1: a Connection Wrapper never holds more than one live Exchange State: the
\* wrappers constructed and not yet destructed are exactly the one stream_wrapper_
\* holds, if any, and the ASSERT(!stream_wrapper_) of newStreamEncoder never fails.
C1_SingleExchange ==
    /\ "newStreamEncoder" \notin asserts
    /\ Len(stream_wrapper_) <= 1
    /\ created = destroyed + Len(stream_wrapper_)

\* A second exchange has begun on a connection that finished a first one.
C1_Witness ==
    /\ last.op \in {"newStream", "runPosted"}
    /\ created = 2
    /\ destroyed = 1
    /\ stream_wrapper_ # <<>>
    /\ exchange = "in_flight"

\* C2: clean reuse.  After onDecodeComplete with the request fully sent, no close
\* signal and the peer not closed, close() was not called, onUpstreamReady did not
\* run inside the call, and the call did exactly: post the callback (now last in the
\* dispatcher's queue), release the wrapper (onStreamClosed), checkForDrained.
C2_CleanReuse ==
    (last.op = "onDecodeComplete" /\ last.encode_complete_
        /\ ~last.close_connection_ /\ ~last.remote_closed)
    => /\ ~Called("close")
       /\ ~Called("onUpstreamReady")
       /\ calls = <<"post", "onStreamClosed", "checkForDrained">>
       /\ posted # <<>>
       /\ posted[Len(posted)] = "onUpstreamReady"
       /\ conn_open = last.conn_open

\* A clean completion on an open connection while a request waits in the pool.
C2_Witness ==
    /\ last.op = "onDecodeComplete"
    /\ last.encode_complete_ /\ ~last.close_connection_ /\ ~last.remote_closed
    /\ conn_open
    /\ pending > 0
    /\ posted = <<"onUpstreamReady">>
    /\ stream_wrapper_ = <<>>

\* C3: early response.  After onDecodeComplete with the request not fully sent,
\* close() was called whatever close_connection_ is, decode_complete_ is false, no
\* callback was posted and the wrapper is still held (no onStreamClosed).
C3_EarlyResponse ==
    (last.op = "onDecodeComplete" /\ ~last.encode_complete_)
    => /\ calls = <<"close">>
       /\ ~conn_open
       /\ stream_wrapper_ # <<>>
       /\ ~stream_wrapper_[1].decode_complete_
       /\ stream_wrapper_[1].close_connection_ = last.close_connection_

\* An early response whose headers asked to keep the connection alive.
C3_Witness ==
    /\ last.op = "onDecodeComplete"
    /\ ~last.encode_complete_ /\ ~last.close_connection_ /\ last.conn_open
    /\ response_decoder.headers.connection \in KeepAliveSpellings
    /\ ~conn_open
    /\ exchange = "violation"

\* C5: every StreamWrapper destruction issued exactly one onStreamClosed, each with
\* delay = true: the pool has as many notifications as wrappers were destructed.
C5_DestructionNotice ==
    /\ Len(notified) = destroyed
    /\ \A i \in 1..Len(notified) : notified[i] = TRUE
    /\ Count(calls, "onStreamClosed") <= 1

\* A wrapper released on clean completion and a second one destroyed after a reset.
C5_Witness ==
    /\ last.op = "deferredDelete"
    /\ exchange = "reset"
    /\ destroyed = 2
    /\ notified = <<TRUE, TRUE>>

\* C6: in a live StreamWrapper decode_complete_ implies encode_complete_.
C6_DecodeImpliesEncode ==
    stream_wrapper_ # <<>>
    => (stream_wrapper_[1].decode_complete_ => stream_wrapper_[1].encode_complete_)

\* A live wrapper whose response completed after the request was fully sent.
C6_Witness ==
    /\ last.op = "onDecodeComplete"
    /\ exchange = "closing"
    /\ stream_wrapper_ # <<>>
    /\ stream_wrapper_[1].decode_complete_
    /\ stream_wrapper_[1].encode_complete_

\* C4: a reset always closes.  After onResetStream, in whatever state the exchange
\* was, close() was called, the connection is closed and the client is out of
\* service; the pool is told exactly once, with delay = true, that this exchange's
\* wrapper is gone: no notification for it while the wrapper is held, one once the
\* wrapper is destructed.
C4_ResetCloses ==
    /\ last.op = "onResetStream"
       => (calls = <<"close">> /\ ~conn_open /\ client_state = "CLOSED"
           /\ stream_wrapper_ # <<>>)
    /\ exchange = "reset" => Len(notified) + Len(stream_wrapper_) = created
    /\ (exchange = "reset" /\ stream_wrapper_ = <<>>)
       => (Len(notified) = created /\ notified[created] = TRUE)

\* A reset after the response had completed with a close signal; the closed client
\* has been deleted and the pool notified.
C4_Witness ==
    /\ last.op = "deferredDelete"
    /\ exchange = "reset"
    /\ last.decode_complete_ /\ last.close_connection_
    /\ ~conn_open
    /\ created = 1
    /\ notified = <<TRUE>>

\* C7: close-on-header.  When onDecodeComplete runs for an exchange whose response
\* headers carried Connection: close in any letter case, close() is called, the
\* connection is closed and no onUpstreamReady is posted, under either policy.
C7_CloseOnHeader ==
    [][(/\ last'.op = "onDecodeComplete"
        /\ stream_wrapper_ # <<>>
        /\ response_decoder.headers.connection \in CloseSpellings)
       => (/\ calls' = <<"close">>
           /\ ~conn_open'
           /\ posted' = posted
           /\ stream_wrapper_' # <<>>)]_vars

\* A fully sent request whose response said "ClOse" (legacy policy, HTTP/1.1, peer
\* still connected): the completion closed the connection.
C7_Witness ==
    /\ last.op = "onDecodeComplete"
    /\ ~fixed_connection_close
    /\ last.encode_complete_ /\ ~last.remote_closed /\ last.conn_open
    /\ response_decoder.headers = [connection |-> <<"C","l","O","s","e">>,
                                   proxy_connection |-> <<>>]
    /\ calls = <<"close">>
    /\ ~conn_open

\* C8: legacy policy.  After a headers event on an exchange not yet marked, with
\* fixed_connection_close off, close_connection_ is true exactly when Connection is
\* "close", or the protocol is HTTP/1.0 and Connection is not "keep-alive", or
\* Proxy-Connection is "close" (all without regard to case); and an exchange so
\* marked has the connection closed when its response completes.
C8_LegacyTable ==
    /\ (last.op = "decodeHeaders" /\ ~fixed_connection_close /\ ~last.close_connection_)
       => /\ stream_wrapper_ # <<>>
          /\ stream_wrapper_[1].close_connection_
             <=> \/ last.headers.connection \in CloseSpellings
                 \/ (last.protocol = Http10
                     /\ last.headers.connection \notin KeepAliveSpellings)
                 \/ last.headers.proxy_connection \in CloseSpellings
    /\ (last.op = "onDecodeComplete" /\ ~fixed_connection_close /\ last.close_connection_)
       => (calls = <<"close">> /\ ~conn_open)

\* An HTTP/1.0 response with no Connection header.
C8_Witness ==
    /\ last.op = "decodeHeaders"
    /\ ~fixed_connection_close
    /\ ~last.close_connection_
    /\ last.protocol = Http10
    /\ last.headers = NoHeaders
    /\ stream_wrapper_[1].close_connection_

\* C9: remote close.  After onDecodeComplete with the request fully sent on a
\* connection the peer had closed, close() was called and nothing was posted,
\* whatever close_connection_ was.
C9_RemoteClosed ==
    (last.op = "onDecodeComplete" /\ last.encode_complete_ /\ last.remote_closed)
    => /\ calls = <<"close">>
       /\ ~conn_open
       /\ stream_wrapper_ # <<>>

\* The headers gave no close signal and the peer had closed.
C9_Witness ==
    /\ last.op = "onDecodeComplete"
    /\ last.encode_complete_ /\ last.remote_closed /\ ~last.close_connection_
    /\ last.conn_open
    /\ calls = <<"close">>
    /\ posted = <<>>

\* C10 as stated: a wrapper is held exactly while the exchange is in flight, and is
\* gone once the exchange has ended on any path.
C10_Original ==
    (stream_wrapper_ # <<>>) <=> (exchange = "in_flight")

\* C10, amended: a wrapper is held while the exchange is in flight; it is gone after
\* a clean completion; after a closing completion, an early response or a reset it
\* stays held until the closed client itself is destroyed.
C10_LiveExchange ==
    /\ exchange = "none" => stream_wrapper_ = <<>>
    /\ exchange = "in_flight" => stream_wrapper_ # <<>>
    /\ exchange = "clean" => stream_wrapper_ = <<>>
    /\ exchange \in {"closing", "violation", "reset"}
       => ((stream_wrapper_ # <<>>) <=> (client_state = "CLOSED"))

\* A reset exchange whose wrapper is still held by the closed client.
C10_Witness ==
    /\ last.op = "onResetStream"
    /\ exchange = "reset"
    /\ stream_wrapper_ # <<>>
    /\ client_state = "CLOSED"

\* C11: closingWithIncompleteStream is false when no exchange is live, also right
\* after a clean completion; true for a live exchange whose response has not
\* completed; true after an early response; false for a live exchange whose response
\* completed after the request was fully sent.
C11_ClosingWithIncompleteStream ==
    /\ stream_wrapper_ = <<>> => ~closingWithIncompleteStream(Cur)
    /\ exchange \in {"none", "clean"} => ~closingWithIncompleteStream(Cur)
    /\ exchange = "in_flight" => closingWithIncompleteStream(Cur)
    /\ (exchange = "violation" /\ stream_wrapper_ # <<>>) => closingWithIncompleteStream(Cur)
    /\ (exchange = "closing" /\ stream_wrapper_ # <<>>) => ~closingWithIncompleteStream(Cur)

\* A completed response, request fully sent, on a wrapper the closed client still
\* holds: the stream is not incomplete.
C11_Witness ==
    /\ last.op = "onDecodeComplete"
    /\ exchange = "closing"
    /\ stream_wrapper_ # <<>>
    /\ client_state = "CLOSED"
    /\ ~closingWithIncompleteStream(Cur)

\* C12: no reentrant reuse.  Inside onDecodeComplete the pool's onUpstreamReady does
\* not run and no exchange is begun; the pool calls made from inside it are
\* onStreamClosed with delay = true and checkForDrained, and nothing else.
C12_NoReentrantReuse ==
    last.op = "onDecodeComplete"
    => /\ ~Called("onUpstreamReady")
       /\ exchange # "in_flight"
       /\ \A i \in 1..Len(calls) :
              calls[i] \in {"close", "post", "onStreamClosed", "checkForDrained"}
       /\ Called("onStreamClosed")
          => /\ Count(calls, "onStreamClosed") = 1
             /\ notified # <<>> /\ notified[Len(notified)] = TRUE
             /\ stream_wrapper_ = <<>>

\* A clean completion while a request is queued: the connection is ready and the
\* queued request is still waiting when the handler returns.
C12_Witness ==
    /\ last.op = "onDecodeComplete"
    /\ Called("onStreamClosed")
    /\ pending > 0
    /\ client_state = "READY"
    /\ stream_wrapper_ = <<>>
    /\ posted # <<>>

\* What C13 says of the state a completion or a reset leaves.
C13_AfterCompletion ==
    /\ (last.op = "onDecodeComplete" /\ last.encode_complete_ /\ ~last.close_connection_
            /\ ~last.remote_closed /\ last.conn_open)
       => /\ conn_open
          /\ client_state = "READY"
          /\ Count(calls, "post") = 1
          /\ posted # <<>> /\ posted[Len(posted)] = "onUpstreamReady"
          /\ ~Called("onUpstreamReady")
          /\ stream_wrapper_ = <<>>
          /\ ~closingWithIncompleteStream(Cur)
    /\ (last.op \in {"onDecodeComplete", "onResetStream"} /\ Called("close"))
       => ~Called("post")

\* C13: a clean exchange end to end.  After the request was fully sent, the headers
\* carried no close signal and the response completed on an open connection the peer
\* has not closed: the connection is still open, exactly one onUpstreamReady callback
\* was posted and did not run inside the call, the wrapper is gone and
\* closingWithIncompleteStream is false; a completion or reset that closes the
\* connection posts nothing; and with a dispatcher that keeps running every posted
\* callback is eventually run (unless the process has crashed).
C13_CleanExchange ==
    /\ []C13_AfterCompletion
    /\ \A n \in 1..MaxStreams :
          (Len(posted) >= n) ~> (Len(posted) < n \/ pool = "crashed")

\* The callback posted by a clean exchange has run on the open, ready connection.
C13_Witness ==
    /\ last.op = "runPosted"
    /\ exchange = "clean"
    /\ calls = <<"onUpstreamReady">>
    /\ conn_open
    /\ client_state = "READY"
    /\ stream_wrapper_ = <<>>
    /\ posted = <<>>

\* C14: the order inside a clean completion.  When onDecodeComplete has called
\* checkForDrained, it had posted onUpstreamReady first, then released the wrapper
\* (onStreamClosed with delay = true), then called checkForDrained last; so
\* checkForDrained saw no wrapper and a client already handed back: a drain that
\* was waiting only for this exchange is complete on return.
C14_CleanOrder ==
    (last.op = "onDecodeComplete" /\ Called("checkForDrained"))
    => /\ \E i, j, k \in 1..Len(calls) :
             /\ i < j /\ j < k /\ k = Len(calls)
             /\ calls[i] = "post"
             /\ calls[j] = "onStreamClosed"
             /\ calls[k] = "checkForDrained"
       /\ stream_wrapper_ = <<>>
       /\ client_state # "BUSY"
       /\ notified # <<>> /\ notified[Len(notified)] = TRUE
       /\ (pending = 0 /\ client_state = "READY") => pool # "draining"

\* A clean completion on a draining pool: checkForDrained found the pool drained.
C14_Witness ==
    /\ last.op = "onDecodeComplete"
    /\ Called("checkForDrained")
    /\ Called("onStreamClosed")
    /\ stream_wrapper_ = <<>>
    /\ pool = "drained"

\* C15: completing a response twice is a fatal precondition failure.  Whenever
\* onDecodeComplete runs on a wrapper that has already had one completion, whether
\* that one found the request sent ("closing") or not ("violation"), the ASSERT of
\* onDecodeComplete fails.
C15_SecondCompletionAsserts ==
    [][ (last'.op = "onDecodeComplete" /\ stream_wrapper_ # <<>>
            /\ exchange \in {"closing", "violation"})
        => "onDecodeComplete" \in asserts' ]_vars

\* C16: no stale reference across the post.  Whenever the dispatcher runs the posted
\* onUpstreamReady callback, the pool it was posted for still exists, also when the
\* checkForDrained that followed the post completed a drain.
C16_PoolOutlivesCallback ==
    last.op = "runPosted"
    => /\ pool \in {"active", "draining", "drained"}
       /\ calls = <<"onUpstreamReady">>

\* The close signals of the legacy conditions, read off the spellings among the inputs.
C17_CloseSignal(proto, headers) ==
    \/ headers.connection \in CloseSpellings
    \/ (proto = Http10 /\ headers.connection \notin KeepAliveSpellings)
    \/ headers.proxy_connection \in CloseSpellings

\* C17: decodeHeaders forwards the headers and end_stream to the caller's decoder
\* exactly once and unchanged, under both policies; upstream_cx_close_notify_ is
\* incremented once if this headers event decided to close and not at all
\* otherwise, and the increment comes before the forwarding.
C17_ForwardOnce ==
    last.op = "decodeHeaders"
    => /\ response_decoder = [headers |-> last.headers, end_stream |-> last.end_stream]
       /\ Count(calls, "decodeHeaders") = 1
       /\ calls \in { <<"decodeHeaders">>,
                      <<"upstream_cx_close_notify_.inc", "decodeHeaders">> }
       /\ Called("upstream_cx_close_notify_.inc")
          <=> IF fixed_connection_close \/ ~last.close_connection_
              THEN stream_wrapper_[1].close_connection_
              ELSE C17_CloseSignal(last.protocol, last.headers)

\* Headers with a close signal and end_stream set were counted, then forwarded.
C17_Witness ==
    /\ last.op = "decodeHeaders"
    /\ last.end_stream
    /\ last.headers.connection = <<"C","l","O","s","e">>
    /\ calls = <<"upstream_cx_close_notify_.inc", "decodeHeaders">>
    /\ response_decoder.end_stream
    /\ response_decoder.headers.connection = <<"C","l","O","s","e">>

\* C18: onEncodeComplete sets encode_complete_ and changes nothing else: not
\* decode_complete_ or close_connection_, not the connection or the client, not the
\* wrapper held, not the dispatcher's queue, and the pool is told nothing; in every
\* state, also after an early response.
C18_OnEncodeCompleteFrame ==
    [][ last'.op = "onEncodeComplete"
        => /\ stream_wrapper_ # <<>>
           /\ stream_wrapper_' = <<[stream_wrapper_[1] EXCEPT !.encode_complete_ = TRUE]>>
           /\ calls' = <<>>
           /\ UNCHANGED <<fixed_connection_close, client_state, conn_open, remote_closed,
                          pool, pending, posted, notified, created, destroyed,
                          response_decoder, asserts, exchange>> ]_vars

\* The request finished being sent after an early response had closed the connection.
C18_Witness ==
    /\ last.op = "onEncodeComplete"
    /\ ~last.encode_complete_
    /\ exchange = "violation"
    /\ stream_wrapper_ # <<>>
    /\ stream_wrapper_[1].encode_complete_
    /\ ~stream_wrapper_[1].decode_complete_
    /\ ~conn_open

\* A step within one exchange: the same wrapper is held before and after.
C19_SameExchange ==
    /\ stream_wrapper_ # <<>>
    /\ stream_wrapper_' # <<>>
    /\ created' = created

\* A completion with the request sent on an exchange marked for closure closes.
C19_MarkedIsClosed ==
    (last'.op = "onDecodeComplete" /\ last'.close_connection_ /\ last'.encode_complete_)
    => (Count(calls', "close") = 1 /\ ~conn_open')

\* C19 as stated: once a headers event has set close_connection_, no later event of
\* the same exchange sets it back to false, under either policy; so a connection
\* marked for closure is closed when the response completes with the request sent.
C19_Original ==
    [][ /\ (C19_SameExchange /\ stream_wrapper_[1].close_connection_)
           => stream_wrapper_'[1].close_connection_
        /\ C19_MarkedIsClosed ]_vars

\* C19, amended: under the legacy conditions the close decision is sticky within an
\* exchange.  Under HeaderUtility::shouldCloseConnection each headers event assigns
\* the flag, so only a later headers event carrying no close signal sets it back to
\* false; no other event does.  A connection still marked when the response
\* completes with the request sent is closed.
C19_StickyClose ==
    [][ /\ (C19_SameExchange /\ stream_wrapper_[1].close_connection_)
           => \/ stream_wrapper_'[1].close_connection_
              \/ /\ fixed_connection_close
                 /\ last'.op = "decodeHeaders"
                 /\ last'.headers.connection \notin CloseSpellings
                 /\ ~(last'.protocol = Http10
                        /\ last'.headers.connection \notin KeepAliveSpellings)
        /\ C19_MarkedIsClosed ]_vars

\* Legacy conditions: a second headers event without a close signal left the
\* exchange marked for closure.
C19_Witness ==
    /\ ~fixed_connection_close
    /\ last.op = "decodeHeaders"
    /\ last.close_connection_
    /\ ~C17_CloseSignal(last.protocol, last.headers)
    /\ stream_wrapper_ # <<>>
    /\ stream_wrapper_[1].close_connection_

\* C20: no state leaks between exchanges.  Every wrapper constructed, also on a
\* connection reused after a clean completion and whatever the flags of the
\* exchange before it were, starts with encode_complete_, decode_complete_ and
\* close_connection_ all false, and nothing it has yet forwarded.
C20_FreshExchange ==
    [][ created' # created
        => /\ created' = created + 1
           /\ stream_wrapper_' = << [encode_complete_ |-> FALSE,
                                     decode_complete_ |-> FALSE,
                                     close_connection_ |-> FALSE] >>
           /\ response_decoder' = NoDecoded
           /\ exchange' = "in_flight" ]_vars

\* A second exchange has just begun on a connection reused after a clean completion
\* of an exchange whose request had been sent.
C20_Witness ==
    /\ last.op = "newStream"
    /\ created = 2
    /\ destroyed = 1
    /\ conn_open
    /\ client_state = "BUSY"
    /\ stream_wrapper_ = << [encode_complete_ |-> FALSE,
                             decode_complete_ |-> FALSE,
                             close_connection_ |-> FALSE] >>

====
